---- MODULE Spec2Model ----
(***************************************************************************)
(* Foodgram backend: the recipe store, the cart / favorite / subscription  *)
(* membership toggles, the recipe write path, the shopping-cart            *)
(* aggregation query and the PDF writer that renders it.                   *)
(*                                                                         *)
(* Names and units of ingredients are represented by their rank in the     *)
(* database collation (1 = "Salt" < 2 = "Sugar"; 1 = "g", 2 = "kg"), so    *)
(* ORDER BY name is the order of the numbers.                              *)
(***************************************************************************)
EXTENDS Integers, Sequences, FiniteSets, Bags, TLC

(***************************************************************************)
(* Bounds of the model.                                                    *)
(***************************************************************************)
\* Recipe primary keys handed out by the store: 1..MaxRecipe.
MaxRecipe == 2
\* Largest amount a payload or a seeded row carries.
MaxAmount == 2
\* Most RecipeIngredient rows in a seeded store.
MaxRows == 3
\* Requests handled in one behaviour of the sequential specifications.
MaxSteps == 4
\* Requests handled in one behaviour of the write-path specification.
MaxWrites == 3
\* Reads one concurrent reader makes.
MaxReads == 2
\* Longest aggregated sequence handed to the PDF writer.
MaxLines == 75

Users == {"u1", "u2"}
\* A user id that is in no row of the user table.
NoUser == "u0"
Tags == {"t1", "t2"}
RecipeIds == 1..MaxRecipe
\* A recipe id the sequence never hands out.
NoRecipe == 0
Amounts == 1..MaxAmount

(***************************************************************************)
(* The ingredient catalog (recipes/models.py, Ingredient): no uniqueness   *)
(* on (name, measurement_unit), so two rows may carry the same pair.       *)
(*   1: Salt g    2: Sugar g    3: Sugar g (a second record)   4: Sugar kg *)
(***************************************************************************)
Ingredient ==
  <<[name |-> 1, measurement_unit |-> 1],
    [name |-> 2, measurement_unit |-> 1],
    [name |-> 2, measurement_unit |-> 1],
    [name |-> 2, measurement_unit |-> 2]>>

IngredientIds == DOMAIN Ingredient

VARIABLES
  recipes,          \* Recipe table: pk -> row (with its tag set)
  ri,               \* RecipeIngredient table: bag of [recipe, ingredient, amount]
  cart,             \* ShoppingCart table: bag of [user, recipe]
  favorite,         \* Favorite table: bag of [user, recipe]
  subs,             \* AuthorSubscription table: bag of [subscriber, author]
  nextId,           \* the Recipe pk sequence
  uniqueValidators, \* whether the serializers derive a uniqueness validator
                    \* from Meta.constraints (depends on the framework build)
  resp,             \* the response to the last request
  steps,            \* requests handled so far
  procs,            \* the requests in flight (concurrent specifications)
  pdf               \* the PDF writer's state (step-wise specification)

vars == <<recipes, ri, cart, favorite, subs, nextId, uniqueValidators,
          resp, steps, procs, pdf>>

store == <<recipes, ri, cart, favorite, subs>>

(***************************************************************************)
(* Bag helpers.                                                            *)
(***************************************************************************)
RECURSIVE SumOver(_, _)
\* Sum of f[x] over the finite set S.
SumOver(S, f) ==
  IF S = {} THEN 0
  ELSE LET x == CHOOSE y \in S : TRUE
       IN f[x] + SumOver(S \ {x}, f)

\* The bag holding one copy of x.
One(x) == SetToBag({x})

(***************************************************************************)
(* The aggregation query of download_shopping_cart:                        *)
(*   RecipeIngredient.objects                                              *)
(*     .filter(recipe__shopping_cart__user=request.user)                   *)
(*     .values('ingredient__name', 'ingredient__measurement_unit')         *)
(*     .order_by('ingredient__name')                                       *)
(*     .annotate(ingredient_value=Sum('amount'))                           *)
(***************************************************************************)
CartRow(user, recipe) == [user |-> user, recipe |-> recipe]

\* Mutant: the filter forgets the user (recipe__shopping_cart__isnull=False).
JoinedRows_AnyUser(user) ==
  LET copies(r) == SumOver(Users, [u \in Users |-> CopiesIn(CartRow(u, r.recipe), cart)])
      rows == {r \in BagToSet(ri) : copies(r) > 0}
  IN [r \in rows |-> CopiesIn(r, ri) * copies(r)]

\* filter(recipe__shopping_cart__user=user): the join of RecipeIngredient with
\* ShoppingCart on the recipe; a RecipeIngredient row appears once for every
\* cart row of the user that holds its recipe.
JoinedRows(user) ==
  LET rows == {r \in BagToSet(ri) : CopiesIn(CartRow(user, r.recipe), cart) > 0}
  IN [r \in rows |-> CopiesIn(r, ri) * CopiesIn(CartRow(user, r.recipe), cart)]

\* Mutant: values('ingredient', ...) groups by the ingredient record.
GroupKey_ById(row) ==
  [ingredient |-> row.ingredient,
   ingredient__name |-> Ingredient[row.ingredient].name,
   ingredient__measurement_unit |-> Ingredient[row.ingredient].measurement_unit]

\* values('ingredient__name', 'ingredient__measurement_unit'): the GROUP BY key.
GroupKey(row) ==
  [ingredient__name |-> Ingredient[row.ingredient].name,
   ingredient__measurement_unit |-> Ingredient[row.ingredient].measurement_unit]

\* annotate(ingredient_value=Sum('amount')) for one group.
SumAmount(user, key) ==
  LET joined == JoinedRows(user)
      group == {r \in DOMAIN joined : GroupKey(r) = key}
  IN SumOver(group, [r \in group |-> r.amount * joined[r]])

\* The result rows of the query, one per group.
AggregatedLines(user) ==
  {[ingredient__name |-> key.ingredient__name,
    ingredient__measurement_unit |-> key.ingredient__measurement_unit,
    ingredient_value |-> SumAmount(user, key)] :
      key \in {GroupKey(r) : r \in DOMAIN JoinedRows(user)}}

\* order_by('ingredient__name'): ascending by name.
OrderedByName(s) ==
  \A i, j \in DOMAIN s : i < j => s[i].ingredient__name <= s[j].ingredient__name

\* The sequences the query may return: the result rows in any order that is
\* ascending by name.  ORDER BY names no second key, so the database is free
\* in the order of rows that share a name.
ingredients_cart(user) ==
  LET lines == AggregatedLines(user)
      n == Cardinality(lines)
  IN {s \in [1..n -> lines] :
        /\ \A i, j \in 1..n : i # j => s[i] # s[j]
        /\ OrderedByName(s)}

(***************************************************************************)
(* The PDF writer, api/utils.py create_shopping_cart.  A canvas is the     *)
(* pages shown so far and the operations of the page being drawn.          *)
(***************************************************************************)
TitleX == 200
TitleY == 800
TitleFont == 18
LineFont == 12
NextPageFont == 14
FirstLineY == 750
NumberX == 50
TextX == 70
LineStep == 20
BottomY == 50
PageTopY == 800

NoText == [kind |-> "none", number |-> 0, name |-> 0, value |-> 0, unit |-> 0]
\* 'Список покупок.'
TitleText == [NoText EXCEPT !.kind = "title"]
\* f"{number}."
NumberText(number) == [NoText EXCEPT !.kind = "number", !.number = number]
\* f"{name}: {ingredient_value} {measurement_unit}."
ItemText(ingredient) ==
  [NoText EXCEPT !.kind = "item",
                 !.name = ingredient.ingredient__name,
                 !.value = ingredient.ingredient_value,
                 !.unit = ingredient.ingredient__measurement_unit]

\* canvas.Canvas(buffer)
Canvas == [pages |-> <<>>, page |-> <<>>]

setFont(c, size) ==
  [c EXCEPT !.page = Append(@, [op |-> "setFont", x |-> 0, y |-> 0,
                                size |-> size, text |-> NoText])]

drawString(c, x, y, text) ==
  [c EXCEPT !.page = Append(@, [op |-> "drawString", x |-> x, y |-> y,
                                size |-> 0, text |-> text])]

\* showPage() closes the page being drawn, whatever it holds, and opens another.
showPage(c) == [pages |-> Append(c.pages, c.page), page |-> <<>>]

\* save() shows the page being drawn if it holds anything, then writes the file.
save(c) == IF c.page # <<>> THEN showPage(c).pages ELSE c.pages

\* utils.py 29-33: the canvas, the title, the font of the lines, the cursor.
WriteTitle ==
  [pdf_file |-> setFont(drawString(setFont(Canvas, TitleFont),
                                   TitleX, TitleY, TitleText), LineFont),
   from_bottom |-> FirstLineY]

\* Mutant: the number is the position of the line on its page.
WriteLine_NumberPerPage(w, number, ingredient) ==
  LET position == IF w.pdf_file.pages = <<>> THEN number
                  ELSE ((PageTopY - w.from_bottom) \div LineStep) + 1
      drawn == drawString(drawString(w.pdf_file, NumberX, w.from_bottom,
                                     NumberText(position)),
                          TextX, w.from_bottom, ItemText(ingredient))
      from_bottom == w.from_bottom - LineStep
  IN IF from_bottom <= BottomY
     THEN [pdf_file |-> setFont(showPage(drawn), NextPageFont),
           from_bottom |-> PageTopY]
     ELSE [pdf_file |-> drawn, from_bottom |-> from_bottom]

\* Mutant: every new page is headed by the title.
WriteLine_TitlePerPage(w, number, ingredient) ==
  LET drawn == drawString(drawString(w.pdf_file, NumberX, w.from_bottom,
                                     NumberText(number)),
                          TextX, w.from_bottom, ItemText(ingredient))
      from_bottom == w.from_bottom - LineStep
  IN IF from_bottom <= BottomY
     THEN [pdf_file |-> setFont(drawString(showPage(drawn), TitleX, TitleY, TitleText),
                                NextPageFont),
           from_bottom |-> FirstLineY]
     ELSE [pdf_file |-> drawn, from_bottom |-> from_bottom]

\* Mutant: the page is broken when the cursor is below the bottom margin,
\* not when it reaches it.
WriteLine_BelowBottom(w, number, ingredient) ==
  LET drawn == drawString(drawString(w.pdf_file, NumberX, w.from_bottom,
                                     NumberText(number)),
                          TextX, w.from_bottom, ItemText(ingredient))
      from_bottom == w.from_bottom - LineStep
  IN IF from_bottom < BottomY
     THEN [pdf_file |-> setFont(showPage(drawn), NextPageFont),
           from_bottom |-> PageTopY]
     ELSE [pdf_file |-> drawn, from_bottom |-> from_bottom]

\* utils.py 35-47: one pass of the loop over enumerate(ingredients_cart, 1).
WriteLine(w, number, ingredient) ==
  LET drawn == drawString(drawString(w.pdf_file, NumberX, w.from_bottom,
                                     NumberText(number)),
                          TextX, w.from_bottom, ItemText(ingredient))
      from_bottom == w.from_bottom - LineStep
  IN IF from_bottom <= BottomY
     THEN [pdf_file |-> setFont(showPage(drawn), NextPageFont),
           from_bottom |-> PageTopY]
     ELSE [pdf_file |-> drawn, from_bottom |-> from_bottom]

\* Mutant: the file is saved without showing the page being drawn.
Finalize_NoFlush(w) == w.pdf_file.pages

\* utils.py 48-49: the last page is shown and the file saved.
Finalize(w) == save(showPage(w.pdf_file))

RECURSIVE WriteLines(_, _, _)
WriteLines(w, lines, number) ==
  IF number > Len(lines) THEN w
  ELSE WriteLines(WriteLine(w, number, lines[number]), lines, number + 1)

\* Mutant: nothing is written for an empty sequence.
create_shopping_cart_SkipEmpty(lines) ==
  IF lines = <<>> THEN <<>> ELSE Finalize(WriteLines(WriteTitle, lines, 1))

\* The document create_shopping_cart returns: its pages, each the operations
\* drawn on it.
create_shopping_cart(lines) == Finalize(WriteLines(WriteTitle, lines, 1))

(***************************************************************************)
(* Responses.  body is a sequence: empty, the one representation returned, *)
(* or the pages of the document.                                           *)
(***************************************************************************)
Response(op, method, user, target, status, body) ==
  [op |-> op, method |-> method, user |-> user, target |-> target,
   status |-> status, body |-> body]

NoResponse == Response("none", "none", NoUser, NoRecipe, 0, <<>>)

(***************************************************************************)
(* RecipeViewSet.download_shopping_cart: the query, then the PDF writer.   *)
(***************************************************************************)
\* Mutant: the cart is emptied once its list has been downloaded.
download_shopping_cart_ClearsCart(user) ==
  /\ \E lines \in ingredients_cart(user) :
       resp' = Response("download_shopping_cart", "GET", user, NoRecipe, 200,
                        create_shopping_cart(lines))
  /\ cart' = [x \in {y \in DOMAIN cart : y.user # user} |-> cart[x]]
  /\ UNCHANGED <<recipes, ri, favorite, subs, nextId, uniqueValidators, procs, pdf>>

download_shopping_cart(user) ==
  /\ \E lines \in ingredients_cart(user) :
       resp' = Response("download_shopping_cart", "GET", user, NoRecipe, 200,
                        create_shopping_cart(lines))
  /\ UNCHANGED <<store, nextId, uniqueValidators, procs, pdf>>

(***************************************************************************)
(* The membership toggles: RecipeViewSet.get_shopping_cart, get_favorite   *)
(* and CustomUserViewSet.get_subscribe.                                    *)
(***************************************************************************)
\* serializer.is_valid(raise_exception=True): the uniqueness validator of the
\* serializer rejects a row its table already holds, when the serializer
\* carries one (derived tells).
is_valid(table, row, derived) == ~(derived /\ CopiesIn(row, table) > 0)

\* Mutant: the model declares no constraint.
NoConstraint(table, row) == TRUE

\* ShoppingCart.Meta.constraints: unique_user_recipe_in_cart.
unique_user_recipe_in_cart(table, row) == CopiesIn(row, table) = 0

\* Favorite.Meta.constraints: unique_user_recipe.
unique_user_recipe(table, row) == CopiesIn(row, table) = 0

\* AuthorSubscription.Meta.unique_together.
unique_together(table, row) == CopiesIn(row, table) = 0

\* Mutant: DELETE uses filter(...).delete(), which deletes what it finds and
\* answers 204 when it finds nothing.
Toggle_SilentDelete(table, row, method, valid, admitted) ==
  IF method = "POST"
  THEN IF ~valid THEN [table |-> table, status |-> 400]
       ELSE IF ~admitted THEN [table |-> table, status |-> 500]
       ELSE [table |-> table (+) One(row), status |-> 201]
  ELSE [table |-> [x \in DOMAIN table \ {row} |-> table[x]], status |-> 204]

\* The part of a toggle view after its first lookup: POST validates and
\* saves (the INSERT fails with IntegrityError, a 500, when the constraint
\* does not admit the row); DELETE looks the row up and deletes it
\* (get() of more than one row raises MultipleObjectsReturned, a 500).
Toggle(table, row, method, valid, admitted) ==
  IF method = "POST"
  THEN IF ~valid THEN [table |-> table, status |-> 400]
       ELSE IF ~admitted THEN [table |-> table, status |-> 500]
       ELSE [table |-> table (+) One(row), status |-> 201]
  ELSE IF CopiesIn(row, table) = 0 THEN [table |-> table, status |-> 404]
       ELSE IF CopiesIn(row, table) > 1 THEN [table |-> table, status |-> 500]
       ELSE [table |-> table (-) One(row), status |-> 204]

\* RecipeSerializer.get_is_in_shopping_cart; request is "None" when the
\* serializer was built with no context.
get_is_in_shopping_cart(request, object, table) ==
  /\ request # "None"
  /\ request \in Users
  /\ CopiesIn(CartRow(request, object), table) > 0

\* RecipeSerializer.get_is_favorited.
get_is_favorited(request, object, table) ==
  /\ request # "None"
  /\ request \in Users
  /\ CopiesIn(CartRow(request, object), table) > 0

\* RecipeSerializer(recipe).data: the membership flags of the representation.
RecipeSerializer(request, pk, cartTable, favoriteTable) ==
  [id |-> pk,
   is_in_shopping_cart |-> get_is_in_shopping_cart(request, pk, cartTable),
   is_favorited |-> get_is_favorited(request, pk, favoriteTable)]

SubscriptionRow(subscriber, author) == [subscriber |-> subscriber, author |-> author]

\* SubscriptionShowSerializer(author, context={'request': request}).data
SubscriptionShowSerializer(request, author, table) ==
  [id |-> author,
   is_subscribed |-> /\ request # "None"
                     /\ request \in Users
                     /\ CopiesIn(SubscriptionRow(request, author), table) > 0,
   recipes_count |-> Cardinality({pk \in DOMAIN recipes : recipes[pk].author = author})]

get_shopping_cart(user, pk, method) ==
  /\ IF pk \notin DOMAIN recipes
     THEN /\ cart' = cart
          /\ resp' = Response("shopping_cart", method, user, pk, 404, <<>>)
     ELSE LET row == CartRow(user, pk)
              done == Toggle(cart, row, method,
                             is_valid(cart, row, uniqueValidators),
                             unique_user_recipe_in_cart(cart, row))
          IN /\ cart' = done.table
             /\ resp' = Response("shopping_cart", method, user, pk, done.status,
                  IF done.status = 201
                  THEN <<RecipeSerializer("None", pk, cart', favorite)>>
                  ELSE <<>>)
  /\ UNCHANGED <<recipes, ri, favorite, subs, nextId, uniqueValidators, procs, pdf>>

\* Mutant: the view was copied from get_shopping_cart and still writes the
\* ShoppingCart table.
get_favorite_InCart(user, pk, method) ==
  /\ IF pk \notin DOMAIN recipes
     THEN /\ cart' = cart
          /\ resp' = Response("favorite", method, user, pk, 404, <<>>)
     ELSE LET row == CartRow(user, pk)
              done == Toggle(cart, row, method,
                             is_valid(cart, row, uniqueValidators),
                             unique_user_recipe_in_cart(cart, row))
          IN /\ cart' = done.table
             /\ resp' = Response("favorite", method, user, pk, done.status,
                  IF done.status = 201
                  THEN <<RecipeSerializer("None", pk, cart', favorite)>>
                  ELSE <<>>)
  /\ UNCHANGED <<recipes, ri, favorite, subs, nextId, uniqueValidators, procs, pdf>>

get_favorite(user, pk, method) ==
  /\ IF pk \notin DOMAIN recipes
     THEN /\ favorite' = favorite
          /\ resp' = Response("favorite", method, user, pk, 404, <<>>)
     ELSE LET row == CartRow(user, pk)
              done == Toggle(favorite, row, method,
                             is_valid(favorite, row, uniqueValidators),
                             unique_user_recipe(favorite, row))
          IN /\ favorite' = done.table
             /\ resp' = Response("favorite", method, user, pk, done.status,
                  IF done.status = 201
                  THEN <<RecipeSerializer("None", pk, cart, favorite')>>
                  ELSE <<>>)
  /\ UNCHANGED <<recipes, ri, cart, subs, nextId, uniqueValidators, procs, pdf>>

\* The serializer of AuthorSubscription always carries the validator of
\* unique_together.
get_subscribe(user, id, method) ==
  /\ IF id \notin Users
     THEN /\ subs' = subs
          /\ resp' = Response("subscribe", method, user, id, 404, <<>>)
     ELSE LET row == SubscriptionRow(user, id)
              done == Toggle(subs, row, method,
                             is_valid(subs, row, TRUE),
                             unique_together(subs, row))
          IN /\ subs' = done.table
             /\ resp' = Response("subscribe", method, user, id, done.status,
                  IF done.status = 201
                  THEN <<SubscriptionShowSerializer(user, id, subs')>>
                  ELSE <<>>)
  /\ UNCHANGED <<recipes, ri, cart, favorite, nextId, uniqueValidators, procs, pdf>>

(***************************************************************************)
(* RecipeViewSet.destroy (ModelViewSet): the recipe row goes and, by       *)
(* on_delete=CASCADE, every RecipeIngredient, Favorite and ShoppingCart    *)
(* row that references it.                                                 *)
(***************************************************************************)
\* The rows of bag B whose recipe is not pk.
\* Mutant: the foreign keys do not cascade.
NoCascade(B, pk) == B

CascadeDelete(B, pk) ==
  LET kept == {x \in BagToSet(B) : x.recipe # pk}
  IN [x \in kept |-> B[x]]

destroy(user, pk) ==
  /\ IF pk \notin DOMAIN recipes
     THEN /\ UNCHANGED <<recipes, ri, cart, favorite>>
          /\ resp' = Response("destroy", "DELETE", user, pk, 404, <<>>)
     ELSE /\ recipes' = [p \in DOMAIN recipes \ {pk} |-> recipes[p]]
          /\ ri' = CascadeDelete(ri, pk)
          /\ cart' = CascadeDelete(cart, pk)
          /\ favorite' = CascadeDelete(favorite, pk)
          /\ resp' = Response("destroy", "DELETE", user, pk, 204, <<>>)
  /\ UNCHANGED <<subs, nextId, uniqueValidators, procs, pdf>>

(***************************************************************************)
(* The recipe write path: RecipeCreateSerializer.create and update, each   *)
(* under @transaction.atomic.  A db is the tables the write path touches:  *)
(* [recipes, ri].  A run is [ok, db]: whether the body returned or raised, *)
(* and the tables as the body left them.                                   *)
(***************************************************************************)
AllFields == {"tags", "ingredients", "name", "text", "cooking_time", "image"}

\* validated_data.get(key, default)
Get(validated_data, key, default) ==
  IF key \in validated_data.given THEN validated_data[key] ELSE default

\* Mutant: amount is declared without min_value.
RecipeCreateSerializer_errors_NoMinValue(data, partial) ==
  {f \in AllFields \ {"image"} : ~partial /\ f \notin data.given}
  \cup {f \in {"tags"} : f \in data.given /\ ~(data.tags \subseteq Tags)}
  \cup {f \in {"ingredients"} :
          /\ f \in data.given
          /\ \E k \in DOMAIN data.ingredients :
               data.ingredients[k].id \notin IngredientIds}
  \cup {f \in {"cooking_time"} : f \in data.given /\ data.cooking_time < 1}

\* serializer.errors: the fields of the payload that do not validate.
RecipeCreateSerializer_errors(data, partial) ==
  {f \in AllFields \ {"image"} : ~partial /\ f \notin data.given}
  \cup {f \in {"tags"} : f \in data.given /\ ~(data.tags \subseteq Tags)}
  \cup {f \in {"ingredients"} :
          /\ f \in data.given
          /\ \E k \in DOMAIN data.ingredients :
               \/ data.ingredients[k].id \notin IngredientIds
               \/ data.ingredients[k].amount < 1}
  \cup {f \in {"cooking_time"} : f \in data.given /\ data.cooking_time < 1}

\* serializer.is_valid(): the declared fields of RecipeCreateSerializer and
\* RecipeIngredientCreateSerializer.  tags and ingredients are required
\* (not on a partial update) and may be empty lists; ids must be stored;
\* amount is an integer with min_value=1; cooking_time is validated >= 1;
\* image is not required.
RecipeCreateSerializer_is_valid(data, partial) ==
  RecipeCreateSerializer_errors(data, partial) = {}

Returned(db) == [ok |-> TRUE, db |-> db]
Raised(db) == [ok |-> FALSE, db |-> db]

RECURSIVE BagOfSeq(_)
BagOfSeq(rows) ==
  IF rows = <<>> THEN EmptyBag ELSE One(Head(rows)) (+) BagOfSeq(Tail(rows))

\* RecipeIngredient.Meta.constraints, unique_recipe_ingredient, for an INSERT
\* of rows into table.
unique_recipe_ingredient(table, rows) ==
  /\ \A j, k \in DOMAIN rows :
       (j # k) => (rows[j].recipe # rows[k].recipe
                   \/ rows[j].ingredient # rows[k].ingredient)
  /\ \A k \in DOMAIN rows : \A x \in DOMAIN table :
       (x.recipe # rows[k].recipe \/ x.ingredient # rows[k].ingredient)

\* instance.tags.clear()
tags_clear(db, pk) == [db EXCEPT !.recipes[pk].tags = {}]

\* instance.tags.set(tags_data)
tags_set(db, pk, tags_data) == [db EXCEPT !.recipes[pk].tags = tags_data]

\* Mutant: the old rows of the recipe are left in the table.
ingredients_kept(db, pk) == db

\* instance.ingredients.clear() and
\* RecipeIngredient.objects.filter(recipe=recipe).delete()
ingredients_delete(db, pk) == [db EXCEPT !.ri = CascadeDelete(@, pk)]

\* __add_ingredients: one bulk INSERT, which raises IntegrityError and
\* inserts nothing when the constraint does not admit the rows.
add_ingredients(db, ingredients_data, pk) ==
  LET rows == [k \in DOMAIN ingredients_data |->
                 [recipe |-> pk,
                  ingredient |-> ingredients_data[k].id,
                  amount |-> ingredients_data[k].amount]]
  IN IF unique_recipe_ingredient(db.ri, rows)
     THEN Returned([db EXCEPT !.ri = @ (+) BagOfSeq(rows)])
     ELSE Raised(db)

\* instance.save(): the columns of the recipe row; the tags are rows of
\* their own table.
instance_save(db, pk, instance) ==
  [db EXCEPT !.recipes[pk] = [instance EXCEPT !.tags = db.recipes[pk].tags]]

\* RecipeCreateSerializer.create, serializers.py 452-459.
create(db, pk, author, validated_data) ==
  LET recipe == [author |-> author, tags |-> {},
                 name |-> validated_data.name,
                 text |-> validated_data.text,
                 cooking_time |-> validated_data.cooking_time,
                 image |-> Get(validated_data, "image", "none"),
                 pub_date |-> pk]
      created == [db EXCEPT !.recipes =
                    [p \in DOMAIN @ \cup {pk} |-> IF p = pk THEN recipe ELSE @[p]]]
  IN add_ingredients(tags_set(created, pk, validated_data.tags),
                     validated_data.ingredients, pk)

\* The database statements of RecipeCreateSerializer.update, in order:
\* tags.clear(), ingredients.clear(), tags.set(), the DELETE of the rows,
\* the bulk INSERT, instance.save().
UpdateStatements == 6

\* The instance as lines 464-468 assign it from validated_data.
assigned(old, validated_data) ==
  LET image == Get(validated_data, "image", old.image)
      name == Get(validated_data, "name", old.name)
      text == Get(validated_data, "text", name)
      cooking_time == Get(validated_data, "cooking_time", old.cooking_time)
  IN [old EXCEPT !.image = image, !.name = name, !.text = text,
                 !.cooking_time = cooking_time]

\* Statement k of update on the store db.  tags.set(None) and the
\* comprehension over None raise TypeError.
update_statement(k, db, instance, pk, validated_data) ==
  CASE k = 1 -> Returned(tags_clear(db, pk))
    [] k = 2 -> Returned(ingredients_delete(db, pk))
    [] k = 3 -> IF "tags" \notin validated_data.given THEN Raised(db)
                ELSE Returned(tags_set(db, pk, validated_data.tags))
    [] k = 4 -> Returned(ingredients_delete(db, pk))
    [] k = 5 -> IF "ingredients" \notin validated_data.given THEN Raised(db)
                ELSE add_ingredients(db, validated_data.ingredients, pk)
    [] k = 6 -> Returned(instance_save(db, pk, assigned(instance, validated_data)))

RECURSIVE run_statements(_, _, _, _, _)
\* The statements from k on, up to the first that raises.
run_statements(k, db, instance, pk, validated_data) ==
  IF k > UpdateStatements THEN Returned(db)
  ELSE LET r == update_statement(k, db, instance, pk, validated_data)
       IN IF r.ok THEN run_statements(k + 1, r.db, instance, pk, validated_data)
          ELSE r

\* RecipeCreateSerializer.update, serializers.py 462-478.
update(db, pk, validated_data) ==
  run_statements(1, db, db.recipes[pk], pk, validated_data)

\* Mutant: the method is not wrapped, every statement commits as it runs.
autocommit(before, run) == run.db

\* @transaction.atomic: the writes of a body that raised are rolled back.
transaction_atomic(before, run) == IF run.ok THEN run.db ELSE before

\* RecipeViewSet.create (ModelViewSet): POST /recipes/.
RecipeViewSet_create(user, data) ==
  /\ nextId <= MaxRecipe
  /\ IF ~RecipeCreateSerializer_is_valid(data, FALSE)
     THEN /\ UNCHANGED <<recipes, ri, nextId>>
          /\ resp' = Response("create", "POST", user, nextId, 400,
                               <<RecipeCreateSerializer_errors(data, FALSE)>>)
     ELSE LET before == [recipes |-> recipes, ri |-> ri]
              run == create(before, nextId, user, data)
              after == transaction_atomic(before, run)
          IN /\ recipes' = after.recipes
             /\ ri' = after.ri
             \* the pk sequence is not transactional in every database
             /\ nextId' \in (IF run.ok THEN {} ELSE {nextId}) \cup {nextId + 1}
             /\ resp' = Response("create", "POST", user, nextId,
                                  IF run.ok THEN 201 ELSE 500, <<>>)
  /\ UNCHANGED <<cart, favorite, subs, uniqueValidators, procs, pdf>>

\* RecipeViewSet.update / partial_update (ModelViewSet): PUT, PATCH
\* /recipes/{pk}/.
RecipeViewSet_update(user, pk, data, method) ==
  /\ IF pk \notin DOMAIN recipes
     THEN /\ UNCHANGED <<recipes, ri>>
          /\ resp' = Response("update", method, user, pk, 404, <<>>)
     ELSE IF ~RecipeCreateSerializer_is_valid(data, method = "PATCH")
     THEN /\ UNCHANGED <<recipes, ri>>
          /\ resp' = Response("update", method, user, pk, 400,
                               <<RecipeCreateSerializer_errors(data, method = "PATCH")>>)
     ELSE LET before == [recipes |-> recipes, ri |-> ri]
              run == update(before, pk, data)
              after == transaction_atomic(before, run)
          IN /\ recipes' = after.recipes
             /\ ri' = after.ri
             /\ resp' = Response("update", method, user, pk,
                                  IF run.ok THEN 200 ELSE 500, <<>>)
  /\ UNCHANGED <<cart, favorite, subs, nextId, uniqueValidators, procs, pdf>>

(***************************************************************************)
(* Seeded stores: the recipes and their ingredient rows that a sequence of *)
(* recipe writes leaves behind.                                            *)
(***************************************************************************)
SeedRecipe(pk) ==
  [author |-> IF pk % 2 = 1 THEN "u1" ELSE "u2", tags |-> {"t1"},
   name |-> "n1", text |-> "x1", cooking_time |-> 1, image |-> "i1",
   pub_date |-> pk]

SeedAmount(recipe, ingredient) == ((recipe + ingredient) % MaxAmount) + 1

SeedRows(recipe, ingredients) ==
  {[recipe |-> recipe, ingredient |-> i, amount |-> SeedAmount(recipe, i)] :
     i \in ingredients}

\* Every RecipeIngredient table of at most MaxRows rows, one row at most for
\* a (recipe, ingredient) pair (unique_recipe_ingredient).
RiSeeds ==
  LET rows == UNION {SeedRows(r, IngredientIds) : r \in RecipeIds}
  IN {SetToBag(S) : S \in {T \in SUBSET rows : Cardinality(T) <= MaxRows}}

\* Every cart table the uniqueness constraint allows: one row for a pair.
CartSeeds == {SetToBag(S) : S \in SUBSET {CartRow(u, r) : u \in Users, r \in RecipeIds}}

Idle == [state |-> "Idle"]

(***************************************************************************)
(* SpecAgg: the aggregation and its rendering over every seeded store.     *)
(***************************************************************************)
InitAgg ==
  /\ recipes = [pk \in RecipeIds |-> SeedRecipe(pk)]
  /\ ri \in RiSeeds
  /\ cart \in CartSeeds
  /\ favorite = EmptyBag
  /\ subs = EmptyBag
  /\ nextId = MaxRecipe + 1
  /\ uniqueValidators = TRUE
  /\ resp = NoResponse
  /\ steps = 0
  /\ procs = <<>>
  /\ pdf = Idle

NextAgg ==
  /\ \E user \in Users : download_shopping_cart(user)
  /\ UNCHANGED steps

SpecAgg == InitAgg /\ [][NextAgg]_vars

(***************************************************************************)
(* SpecMember: the membership toggles and recipe deletion over a seeded    *)
(* store (recipe 1: Sugar g; recipe 2: Salt g and Sugar g), at most        *)
(* MaxSteps requests.                                                      *)
(***************************************************************************)
Methods == {"POST", "DELETE"}

InitMember ==
  /\ recipes = [pk \in RecipeIds |-> SeedRecipe(pk)]
  /\ ri = SetToBag(UNION {SeedRows(r, IF r % 2 = 1 THEN {2} ELSE {1, 2}) :
                             r \in RecipeIds})
  /\ cart = EmptyBag
  /\ favorite = EmptyBag
  /\ subs = EmptyBag
  /\ nextId = MaxRecipe + 1
  /\ uniqueValidators \in BOOLEAN
  /\ resp = NoResponse
  /\ steps = 0
  /\ procs = <<>>
  /\ pdf = Idle

\* One request of a bounded sequential behaviour.
Request(handler) ==
  /\ steps < MaxSteps
  /\ steps' = steps + 1
  /\ handler

NextMember ==
  \/ \E user \in Users, pk \in RecipeIds \cup {NoRecipe}, method \in Methods :
       Request(get_shopping_cart(user, pk, method))
  \/ \E user \in Users, pk \in RecipeIds \cup {NoRecipe}, method \in Methods :
       Request(get_favorite(user, pk, method))
  \/ \E user \in Users, id \in Users \cup {NoUser}, method \in Methods :
       Request(get_subscribe(user, id, method))
  \/ \E user \in Users, pk \in RecipeIds : Request(destroy(user, pk))

SpecMember == InitMember /\ [][NextMember]_vars

(***************************************************************************)
(* SpecWrite: recipe creates, updates and deletes over a store seeded with *)
(* recipe 1 (Sugar g), at most MaxWrites requests.                         *)
(***************************************************************************)
\* A payload that gives every field.
Payload(tags, ingredients) ==
  [given |-> AllFields, tags |-> tags, ingredients |-> ingredients,
   name |-> "n2", text |-> "x2", cooking_time |-> 2, image |-> "i2"]

Item(id, amount) == [id |-> id, amount |-> amount]

\* Ingredient lists: empty, one item, two ingredients in either order, one
\* ingredient twice (with different and with equal amounts), and a list
\* with an amount of 0.
PayloadLists ==
  {<<>>, <<Item(1, 1)>>, <<Item(2, MaxAmount)>>, <<Item(1, 1), Item(2, 0)>>,
   <<Item(1, 1), Item(2, MaxAmount)>>, <<Item(2, 1), Item(1, 1)>>,
   <<Item(2, 1), Item(2, MaxAmount)>>, <<Item(2, MaxAmount), Item(2, MaxAmount)>>}

\* Complete payloads, and payloads that leave out tags, ingredients, or
\* every scalar field.
Payloads ==
  {Payload({"t2"}, l) : l \in PayloadLists}
  \cup {Payload({}, <<Item(1, 1)>>)}
  \cup {[Payload({"t2"}, <<Item(1, 1), Item(2, MaxAmount)>>) EXCEPT !.given = g] :
          g \in {AllFields \ {"tags"}, AllFields \ {"ingredients"},
                 {"tags", "ingredients"}}}

\* The users who edit and delete recipes here; u2 is not the author of
\* recipe 1 (RecipeViewSet declares no permission class).
Editors == {"u2"}

InitWrite ==
  /\ recipes = [pk \in {1} |-> SeedRecipe(pk)]
  /\ ri = SetToBag(SeedRows(1, {2}))
  /\ cart = EmptyBag
  /\ favorite = EmptyBag
  /\ subs = EmptyBag
  /\ nextId = 2
  /\ uniqueValidators = TRUE
  /\ resp = NoResponse
  /\ steps = 0
  /\ procs = <<>>
  /\ pdf = Idle

\* One request of a bounded behaviour of writes.
Write(handler) ==
  /\ steps < MaxWrites
  /\ steps' = steps + 1
  /\ handler

NextWrite ==
  \/ \E user \in Users, data \in Payloads :
       Write(RecipeViewSet_create(user, data))
  \/ \E user \in Editors, pk \in RecipeIds, data \in Payloads, method \in {"PUT", "PATCH"} :
       Write(RecipeViewSet_update(user, pk, data, method))
  \/ \E user \in Editors, pk \in RecipeIds : Write(destroy(user, pk))

SpecWrite == InitWrite /\ [][NextWrite]_vars

(***************************************************************************)
(* SpecConc: requests in flight at once, each a process that runs one      *)
(* database statement per step.                                            *)
(*   writer  PATCH/PUT of recipe 1 (RecipeCreateSerializer.update inside   *)
(*           its atomic block; it is the only writer of recipes and ri,    *)
(*           so its transaction works on a copy and the commit installs    *)
(*           the copy)                                                     *)
(*   reader  GET of recipe 1 and downloads of u1's cart, MaxReads times    *)
(*   add1, add2  two POSTs of the same (user, recipe) pair to one toggle   *)
(***************************************************************************)
Adders == {"add1", "add2"}
AddUser == "u2"
AddRecipe == 2
ReadUser == "u1"
UpdatedRecipe == 1

\* The payloads of the concurrent update: two that succeed, one whose bulk
\* INSERT raises, one that omits tags.
WriterPayloads ==
  {Payload({"t2"}, <<Item(1, 1)>>),
   Payload({"t1", "t2"}, <<Item(1, 1), Item(2, MaxAmount)>>),
   Payload({"t2"}, <<Item(2, 1), Item(2, MaxAmount)>>),
   [Payload({"t2"}, <<Item(1, 1)>>) EXCEPT !.given = AllFields \ {"tags"}]}

\* The store a request reads through: each request runs in one
\* transactional boundary, which shows it the store committed when the
\* request began.
TransactionalBoundary(committed) == committed

\* instance.recipeingredient_set: the rows of one recipe.
recipeingredient_set(table, pk) ==
  [x \in {y \in BagToSet(table) : y.recipe = pk} |-> table[x]]

\* RecipeViewSet.retrieve: RecipeSerializer(instance).data, its tags and
\* ingredients fields.
retrieve(db, pk) ==
  [tags |-> db.recipes[pk].tags,
   ingredients |-> recipeingredient_set(db.ri, pk)]

\* What a reader has last read; at is the statement the update was about to
\* run when the read was made (0: no update was running).
Seen(kind, at, tags, ingredients, lines) ==
  [kind |-> kind, at |-> at, tags |-> tags, ingredients |-> ingredients,
   lines |-> lines]

WriterAt == IF procs.writer.pc = "run" THEN procs.writer.k ELSE 0

InitConc ==
  /\ recipes = [pk \in RecipeIds |-> SeedRecipe(pk)]
  /\ ri = SetToBag(UNION {SeedRows(r, IF r % 2 = 1 THEN {2} ELSE {1, 2}) :
                             r \in RecipeIds})
  /\ cart = One(CartRow(ReadUser, UpdatedRecipe))
  /\ favorite = EmptyBag
  /\ subs = EmptyBag
  /\ nextId = MaxRecipe + 1
  /\ uniqueValidators \in BOOLEAN
  /\ resp = NoResponse
  /\ steps = 0
  /\ \E data \in WriterPayloads, method \in {"PUT", "PATCH"},
        op \in {"shopping_cart", "favorite"} :
       procs = [writer |-> [pc |-> "start", k |-> 1, data |-> data,
                            method |-> method, instance |-> SeedRecipe(UpdatedRecipe),
                            work |-> [recipes |-> recipes, ri |-> ri],
                            status |-> 0],
                reader |-> [pc |-> "idle", reads |-> 0,
                            snapshot |-> [recipes |-> recipes, ri |-> ri],
                            seen |-> Seen("none", 0, {}, EmptyBag, {})],
                add1 |-> [pc |-> "lookup", op |-> op, status |-> 0],
                add2 |-> [pc |-> "lookup", op |-> op, status |-> 0]]
  /\ pdf = Idle

\* RecipeViewSet.update up to the call of serializer.update: get_object(),
\* is_valid(), and the entry of the atomic block.
WriterBegin ==
  LET w == procs.writer
  IN /\ w.pc = "start"
     /\ procs' = [procs EXCEPT !.writer =
          IF UpdatedRecipe \notin DOMAIN recipes
          THEN [w EXCEPT !.pc = "done", !.status = 404]
          ELSE IF ~RecipeCreateSerializer_is_valid(w.data, w.method = "PATCH")
          THEN [w EXCEPT !.pc = "done", !.status = 400]
          ELSE [w EXCEPT !.pc = "run", !.k = 1,
                         !.instance = recipes[UpdatedRecipe],
                         !.work = [recipes |-> recipes, ri |-> ri]]]
     /\ UNCHANGED <<store, nextId, uniqueValidators, resp, steps, pdf>>

\* One statement of update; the atomic block commits after the last and
\* rolls back when one raises.
WriterStatement ==
  LET w == procs.writer
      r == update_statement(w.k, w.work, w.instance, UpdatedRecipe, w.data)
      last == r.ok /\ w.k = UpdateStatements
      after == transaction_atomic([recipes |-> recipes, ri |-> ri],
                                  [ok |-> last, db |-> r.db])
  IN /\ w.pc = "run"
     /\ recipes' = after.recipes
     /\ ri' = after.ri
     /\ procs' = [procs EXCEPT !.writer =
          IF ~r.ok THEN [w EXCEPT !.pc = "done", !.status = 500]
          ELSE IF last THEN [w EXCEPT !.pc = "done", !.status = 200, !.work = r.db]
          ELSE [w EXCEPT !.k = w.k + 1, !.work = r.db]]
     /\ UNCHANGED <<cart, favorite, subs, nextId, uniqueValidators, resp, steps, pdf>>

\* A GET of the recipe begins.
ReaderBegin ==
  LET rd == procs.reader
  IN /\ rd.pc = "idle"
     /\ rd.reads < MaxReads
     /\ UpdatedRecipe \in DOMAIN recipes
     /\ procs' = [procs EXCEPT !.reader =
          [rd EXCEPT !.pc = "open",
                     !.snapshot = TransactionalBoundary([recipes |-> recipes, ri |-> ri]),
                     !.seen = Seen("none", WriterAt, {}, EmptyBag, {})]]
     /\ UNCHANGED <<store, nextId, uniqueValidators, resp, steps, pdf>>

\* The GET serializes the recipe.
ReaderRetrieve ==
  LET rd == procs.reader
      data == retrieve(rd.snapshot, UpdatedRecipe)
  IN /\ rd.pc = "open"
     /\ procs' = [procs EXCEPT !.reader =
          [rd EXCEPT !.pc = "idle", !.reads = rd.reads + 1,
                     !.seen = Seen("retrieve", rd.seen.at, data.tags,
                                   data.ingredients, {})]]
     /\ UNCHANGED <<store, nextId, uniqueValidators, resp, steps, pdf>>

\* A download of the reader's cart: the aggregation is one query.
ReaderDownload ==
  LET rd == procs.reader
  IN /\ rd.pc = "idle"
     /\ rd.reads < MaxReads
     /\ procs' = [procs EXCEPT !.reader =
          [rd EXCEPT !.reads = rd.reads + 1,
                     !.seen = Seen("download", WriterAt, {}, EmptyBag,
                                   AggregatedLines(ReadUser))]]
     /\ UNCHANGED <<store, nextId, uniqueValidators, resp, steps, pdf>>

\* get_object_or_404(Recipe, pk=pk) of a toggle POST.
AddLookup(p) ==
  /\ procs[p].pc = "lookup"
  /\ procs' = [procs EXCEPT ![p] =
       IF AddRecipe \in DOMAIN recipes THEN [@ EXCEPT !.pc = "validate"]
       ELSE [@ EXCEPT !.pc = "done", !.status = 404]]
  /\ UNCHANGED <<store, nextId, uniqueValidators, resp, steps, pdf>>

\* serializer.is_valid(raise_exception=True) of a toggle POST.
AddValidate(p) ==
  LET table == IF procs[p].op = "favorite" THEN favorite ELSE cart
      row == CartRow(AddUser, AddRecipe)
      valid == is_valid(table, row, uniqueValidators)
      done == Toggle(table, row, "POST", valid, TRUE)
  IN /\ procs[p].pc = "validate"
     /\ procs' = [procs EXCEPT ![p] =
          IF valid THEN [@ EXCEPT !.pc = "save"]
          ELSE [@ EXCEPT !.pc = "done", !.status = done.status]]
     /\ UNCHANGED <<store, nextId, uniqueValidators, resp, steps, pdf>>

\* serializer.save() of a toggle POST: the INSERT, which the constraint of
\* the table decides when it runs.
AddSave(p) ==
  LET row == CartRow(AddUser, AddRecipe)
      done == IF procs[p].op = "favorite"
              THEN Toggle(favorite, row, "POST", TRUE, unique_user_recipe(favorite, row))
              ELSE Toggle(cart, row, "POST", TRUE, unique_user_recipe_in_cart(cart, row))
  IN /\ procs[p].pc = "save"
     /\ IF procs[p].op = "favorite"
        THEN favorite' = done.table /\ cart' = cart
        ELSE cart' = done.table /\ favorite' = favorite
     /\ procs' = [procs EXCEPT ![p] = [@ EXCEPT !.pc = "done", !.status = done.status]]
     /\ UNCHANGED <<recipes, ri, subs, nextId, uniqueValidators, resp, steps, pdf>>

NextConc ==
  \/ WriterBegin
  \/ WriterStatement
  \/ ReaderBegin
  \/ ReaderRetrieve
  \/ ReaderDownload
  \/ \E p \in Adders : AddLookup(p)
  \/ \E p \in Adders : AddValidate(p)
  \/ \E p \in Adders : AddSave(p)

SpecConc == InitConc /\ [][NextConc]_vars

(***************************************************************************)
(* SpecRender: create_shopping_cart statement by statement, over           *)
(* aggregated sequences of 0..MaxLines lines.                              *)
(***************************************************************************)
\* Line k of an aggregate of n lines: distinct (name, unit) keys in
\* ascending order of name, two units to a name.
RenderLine(k, shift) ==
  [ingredient__name |-> (k + shift) \div 2,
   ingredient__measurement_unit |-> ((k + shift) % 2) + 1,
   ingredient_value |-> ((k + shift) % MaxAmount) + 1]

RenderInputs ==
  {[k \in 1..n |-> RenderLine(k, shift)] : n \in 0..MaxLines, shift \in 0..1}

InitRender ==
  /\ recipes = [pk \in RecipeIds |-> SeedRecipe(pk)]
  /\ ri = EmptyBag
  /\ cart = EmptyBag
  /\ favorite = EmptyBag
  /\ subs = EmptyBag
  /\ nextId = MaxRecipe + 1
  /\ uniqueValidators = TRUE
  /\ resp = NoResponse
  /\ steps = 0
  /\ procs = <<>>
  /\ \E lines \in RenderInputs :
       pdf = [state |-> "called", ingredients_cart |-> lines, number |-> 1,
              w |-> [pdf_file |-> Canvas, from_bottom |-> 0], pages |-> <<>>]

\* utils.py 28-29: the buffer and the canvas (a new document).
RenderBegin ==
  /\ pdf.state = "called"
  /\ pdf' = [pdf EXCEPT !.state = "title",
                        !.w = [pdf_file |-> Canvas, from_bottom |-> 0]]
  /\ UNCHANGED <<store, nextId, uniqueValidators, resp, steps, procs>>

\* utils.py 30-33: the title, the font of the lines, the cursor.
RenderTitle ==
  /\ pdf.state = "title"
  /\ pdf.w.pdf_file = Canvas
  /\ pdf' = [pdf EXCEPT !.state = "loop", !.w = WriteTitle]
  /\ UNCHANGED <<store, nextId, uniqueValidators, resp, steps, procs>>

\* utils.py 34-47: the next pass of the loop.
RenderPass ==
  /\ pdf.state = "loop"
  /\ pdf.number <= Len(pdf.ingredients_cart)
  /\ pdf' = [pdf EXCEPT !.w = WriteLine(pdf.w, pdf.number,
                                        pdf.ingredients_cart[pdf.number]),
                        !.number = pdf.number + 1]
  /\ UNCHANGED <<store, nextId, uniqueValidators, resp, steps, procs>>

\* utils.py 48-49: the loop is over.
RenderSave ==
  /\ pdf.state = "loop"
  /\ pdf.number > Len(pdf.ingredients_cart)
  /\ pdf' = [pdf EXCEPT !.state = "saved", !.pages = Finalize(pdf.w)]
  /\ UNCHANGED <<store, nextId, uniqueValidators, resp, steps, procs>>

NextRender == RenderBegin \/ RenderTitle \/ RenderPass \/ RenderSave

SpecRender == InitRender /\ [][NextRender]_vars

\* create_shopping_cart is straight-line code around a loop over a finite
\* sequence: a call that can take a step takes it.
SpecRenderFair == SpecRender /\ WF_vars(NextRender)

(***************************************************************************)
(* Reading a document back: the operations of all pages in drawing order,  *)
(* and the ingredient lines among them.                                    *)
(***************************************************************************)
RECURSIVE Flatten(_)
Flatten(pages) ==
  IF pages = <<>> THEN <<>> ELSE Head(pages) \o Flatten(Tail(pages))

IsItem(o) == o.op = "drawString" /\ o.text.kind = "item"

DrawnItems(pages) == SelectSeq(Flatten(pages), IsItem)

Downloaded == resp.op = "download_shopping_cart" /\ resp.status = 200

Names == {Ingredient[i].name : i \in IngredientIds}
Units == {Ingredient[i].measurement_unit : i \in IngredientIds}

\* The RecipeIngredient rows of the recipes in user's cart whose ingredient
\* carries (name, unit), each row once.
RowsOfKey(user, name, unit) ==
  {r \in BagToSet(ri) :
     /\ BagIn(CartRow(user, r.recipe), cart)
     /\ Ingredient[r.ingredient].name = name
     /\ Ingredient[r.ingredient].measurement_unit = unit}

TotalOfKey(user, name, unit) ==
  LET rows == RowsOfKey(user, name, unit)
  IN SumOver(rows, [r \in rows |-> r.amount])

LinesOfKey(s, name, unit) ==
  {k \in DOMAIN s : /\ s[k].ingredient__name = name
                    /\ s[k].ingredient__measurement_unit = unit}

(***************************************************************************)
(* C1: for every user, every line of the aggregate carries the sum of the  *)
(* amounts of the RecipeIngredient rows of the recipes in the user's cart  *)
(* that match the line's (name, unit), each row counted once; a key with a *)
(* row has exactly one line and a key with no row has none.                *)
(***************************************************************************)
C1_AggregateSums ==
  \A user \in Users : \A s \in ingredients_cart(user) :
    \A name \in Names, unit \in Units :
      LET lines == LinesOfKey(s, name, unit)
      IN /\ Cardinality(lines) = IF RowsOfKey(user, name, unit) = {} THEN 0 ELSE 1
         /\ \A k \in lines : s[k].ingredient_value = TotalOfKey(user, name, unit)

\* A download whose document carries a line summed over rows of two recipes.
C1_Witness ==
  /\ Downloaded
  /\ \E k \in DOMAIN DrawnItems(resp.body) :
       LET t == DrawnItems(resp.body)[k].text
           rows == RowsOfKey(resp.user, t.name, t.unit)
       IN /\ \E r1, r2 \in rows : r1.recipe # r2.recipe
          /\ t.value = TotalOfKey(resp.user, t.name, t.unit)
          /\ \E r \in rows : t.value > r.amount

(***************************************************************************)
(* C2: the lines of a downloaded report are in ascending order of          *)
(* ingredient name, and two downloads by one user with the store unchanged *)
(* in between return the identical sequence of lines.                      *)
(***************************************************************************)
C2_SortedByName ==
  Downloaded =>
    \A i, j \in DOMAIN DrawnItems(resp.body) :
      i < j => DrawnItems(resp.body)[i].text.name <= DrawnItems(resp.body)[j].text.name

C2_Repeatable ==
  [][(/\ Downloaded
      /\ Downloaded'
      /\ resp'.user = resp.user
      /\ store' = store) => resp'.body = resp.body]_vars

C2_SortedAndRepeatable == []C2_SortedByName /\ C2_Repeatable

(***************************************************************************)
(* C3: grouping is by (name, unit), not by ingredient id: rows of distinct *)
(* ingredient records with equal name and unit are summed into one line,   *)
(* rows of ingredients with equal name and different unit get a line each. *)
(***************************************************************************)
C3_GroupsByNameAndUnit ==
  \A user \in Users : \A s \in ingredients_cart(user) :
    \A r1, r2 \in DOMAIN JoinedRows(user) :
      LET i1 == Ingredient[r1.ingredient]
          i2 == Ingredient[r2.ingredient]
          l1 == LinesOfKey(s, i1.name, i1.measurement_unit)
          l2 == LinesOfKey(s, i2.name, i2.measurement_unit)
      IN /\ Cardinality(l1) = 1
         /\ (i1 = i2) => l1 = l2
         /\ (i1 = i2 /\ r1 # r2) =>
              \A k \in l1 : s[k].ingredient_value >= r1.amount + r2.amount
         /\ (i1.name = i2.name /\ i1.measurement_unit # i2.measurement_unit) =>
              l1 \cap l2 = {}

\* A download over a cart that holds rows of two ingredient records with one
\* name and unit, and a row of the same name in another unit.
C3_Witness ==
  /\ Downloaded
  /\ \E r1, r2, r3 \in DOMAIN JoinedRows(resp.user) :
       /\ r1.ingredient # r2.ingredient
       /\ Ingredient[r1.ingredient] = Ingredient[r2.ingredient]
       /\ Ingredient[r3.ingredient].name = Ingredient[r1.ingredient].name
       /\ Ingredient[r3.ingredient].measurement_unit
            # Ingredient[r1.ingredient].measurement_unit
       /\ \E a, b \in DOMAIN DrawnItems(resp.body) :
            LET ta == DrawnItems(resp.body)[a].text
                tb == DrawnItems(resp.body)[b].text
            IN /\ ta.name = tb.name
               /\ ta.unit # tb.unit
               /\ ta.unit = Ingredient[r1.ingredient].measurement_unit
               /\ ta.value = r1.amount + r2.amount

(***************************************************************************)
(* The request a response answers, read against the tables.                *)
(***************************************************************************)
ToggleOps == {"shopping_cart", "favorite", "subscribe"}

TableOf(op) ==
  CASE op = "shopping_cart" -> cart
    [] op = "favorite" -> favorite
    [] op = "subscribe" -> subs

RowOf(r) ==
  IF r.op = "subscribe" THEN SubscriptionRow(r.user, r.target)
  ELSE CartRow(r.user, r.target)

\* Whether the recipe (the author, for subscribe) of the request is stored.
TargetExists(r) ==
  IF r.op = "subscribe" THEN r.target \in Users ELSE r.target \in DOMAIN recipes

SameRequest(r1, r2) ==
  /\ r1.op = r2.op
  /\ r1.method = r2.method
  /\ r1.user = r2.user
  /\ r1.target = r2.target

AtMostOneRowPerPair ==
  /\ \A x \in DOMAIN cart : cart[x] = 1
  /\ \A x \in DOMAIN favorite : favorite[x] = 1
  /\ \A x \in DOMAIN subs : subs[x] = 1

\* The step handles an add of a pair its table already holds.
DuplicateAdd ==
  /\ resp'.op \in ToggleOps
  /\ resp'.method = "POST"
  /\ steps' = steps + 1
  /\ CopiesIn(RowOf(resp'), TableOf(resp'.op)) > 0

C5_MissingIsNotFound ==
  [][(/\ resp'.op \in ToggleOps
      /\ steps' = steps + 1
      /\ \/ ~TargetExists(resp')
         \/ /\ resp'.method = "DELETE"
            /\ CopiesIn(RowOf(resp'), TableOf(resp'.op)) = 0)
     => /\ resp'.status = 404
        /\ store' = store]_vars

\* A DELETE of a pair that is not in the cart of a stored recipe, answered
\* 404, while the other user holds that recipe in the cart.
C5_Witness ==
  /\ resp.op = "shopping_cart"
  /\ resp.method = "DELETE"
  /\ resp.status = 404
  /\ resp.target \in DOMAIN recipes
  /\ \E u \in Users : CopiesIn(CartRow(u, resp.target), cart) = 1

(***************************************************************************)
(* The rows of one recipe in a RecipeIngredient table, and the rows a       *)
(* payload lists for it.                                                    *)
(***************************************************************************)
RowsOfRecipe(table, pk) ==
  [x \in {y \in BagToSet(table) : y.recipe = pk} |-> table[x]]

ListedRows(pk, ingredients) ==
  BagOfSeq([k \in DOMAIN ingredients |->
              [recipe |-> pk, ingredient |-> ingredients[k].id,
               amount |-> ingredients[k].amount]])

(***************************************************************************)
(* C6: a step that is an update of a recipe with a payload and that        *)
(* answers 200 leaves the RecipeIngredient rows of that recipe equal to    *)
(* exactly the rows the payload lists, no old row besides, and leaves the  *)
(* rows of every other recipe as they were.                                *)
(***************************************************************************)
C6_UpdateReplacesRows ==
  [][(resp'.op = "update" /\ resp'.status = 200) =>
       \A data \in Payloads :
         RecipeViewSet_update(resp'.user, resp'.target, data, resp'.method) =>
           /\ RowsOfRecipe(ri', resp'.target)
                = ListedRows(resp'.target, data.ingredients)
           /\ \A other \in RecipeIds \ {resp'.target} :
                RowsOfRecipe(ri', other) = RowsOfRecipe(ri, other)]_vars

\* A successful update of recipe 1 after which its seeded row (Sugar) is
\* gone, a new row is stored, and recipe 2 holds rows of its own.
C6_Witness ==
  /\ resp.op = "update"
  /\ resp.status = 200
  /\ resp.target = 1
  /\ RowsOfRecipe(ri, 1) = ListedRows(1, <<Item(1, 1)>>)
  /\ 2 \in DOMAIN recipes
  /\ RowsOfRecipe(ri, 2) # EmptyBag

(***************************************************************************)
(* C7: a create or update that fails (the validation rejects it, or a      *)
(* statement raises after earlier statements have written) leaves the      *)
(* recipe rows, their tag sets and the RecipeIngredient rows exactly as    *)
(* they were before the call; a failed create leaves no recipe row.        *)
(***************************************************************************)
C7_FailedWriteRollsBack ==
  [][(resp'.op \in {"create", "update"} /\ resp'.status >= 400) =>
       /\ recipes' = recipes
       /\ ri' = ri
       /\ resp'.op = "create" => resp'.target \notin DOMAIN recipes']_vars

\* An update that raised after tags.clear() and the deletion of the rows had
\* run, on a recipe that holds its tags and rows.
C7_Witness ==
  /\ resp.op = "update"
  /\ resp.status = 500
  /\ resp.target \in DOMAIN recipes
  /\ recipes[resp.target].tags # {}
  /\ RowsOfRecipe(ri, resp.target) # EmptyBag

(***************************************************************************)
(* The lists of the updated recipe before the update and as its payload    *)
(* gives them, and the aggregate lines of a cart that holds that recipe     *)
(* alone.                                                                  *)
(***************************************************************************)
OldLists == retrieve([recipes |-> [pk \in RecipeIds |-> SeedRecipe(pk)],
                      ri |-> SetToBag(SeedRows(UpdatedRecipe, {2}))],
                     UpdatedRecipe)

NewLists ==
  [tags |-> procs.writer.data.tags,
   ingredients |-> ListedRows(UpdatedRecipe, procs.writer.data.ingredients)]

LinesOfRows(rows) ==
  LET group(key) == {x \in DOMAIN rows : GroupKey(x) = key}
  IN {[ingredient__name |-> key.ingredient__name,
       ingredient__measurement_unit |-> key.ingredient__measurement_unit,
       ingredient_value |->
         SumOver(group(key), [x \in group(key) |-> x.amount * rows[x]])] :
        key \in {GroupKey(x) : x \in DOMAIN rows}}

C9_OneRowOneRejected ==
  LET row == CartRow(AddUser, AddRecipe)
      table == IF procs.add1.op = "favorite" THEN favorite ELSE cart
      answers == <<procs.add1.status, procs.add2.status>>
  IN /\ CopiesIn(row, table) <= 1
     /\ (procs.add1.pc = "done" /\ procs.add2.pc = "done") =>
          /\ CopiesIn(row, table) = 1
          /\ \E i, j \in 1..2 :
               /\ i # j
               /\ answers[i] = 201
               /\ answers[j] \in {400, 500}

\* Both POSTs passed validation before either saved; the INSERT of the
\* second was refused.
C9_Witness ==
  /\ procs.add1.pc = "done"
  /\ procs.add2.pc = "done"
  /\ procs.add1.op = "favorite"
  /\ uniqueValidators
  /\ 500 \in {procs.add1.status, procs.add2.status}
  /\ CopiesIn(CartRow(AddUser, AddRecipe), favorite) = 1

(***************************************************************************)
(* The numbers drawn in a document, and the page an operation is on.       *)
(***************************************************************************)
IsNumber(o) == o.op = "drawString" /\ o.text.kind = "number"

DrawnNumbers(pages) == SelectSeq(Flatten(pages), IsNumber)

ItemsOnPage(pages, p) == SelectSeq(pages[p], IsItem)

(***************************************************************************)
(* C10: the saved document of an aggregate of n lines holds exactly n item *)
(* lines, in input order; the k-th carries the name, total and unit of the *)
(* k-th aggregated line and stands on one baseline with the number k; the  *)
(* numbers run 1..n through the page breaks, and the item lines of the     *)
(* pages add up to n (none dropped or drawn twice at a break).             *)
(***************************************************************************)
C10_LinesInOrderNumbered ==
  pdf.state = "saved" =>
    LET lines == pdf.ingredients_cart
        items == DrawnItems(pdf.pages)
        numbers == DrawnNumbers(pdf.pages)
    IN /\ Len(items) = Len(lines)
       /\ Len(numbers) = Len(lines)
       /\ \A k \in DOMAIN lines :
            /\ items[k].text = ItemText(lines[k])
            /\ numbers[k].text.number = k
            /\ numbers[k].y = items[k].y
            /\ numbers[k].x = NumberX
            /\ items[k].x = TextX

\* A saved document of more lines than the first page holds, whose second
\* page begins with the line after the last of the first page.
C10_Witness ==
  /\ pdf.state = "saved"
  /\ Len(pdf.pages) >= 2
  /\ Len(ItemsOnPage(pdf.pages, 2)) > 1
  /\ LET first == Len(ItemsOnPage(pdf.pages, 1))
     IN /\ first < Len(pdf.ingredients_cart)
        /\ ItemsOnPage(pdf.pages, 2)[1].text = ItemText(pdf.ingredients_cart[first + 1])
        /\ SelectSeq(pdf.pages[2], IsNumber)[1].text.number = first + 1

(***************************************************************************)
(* C11: in the saved document of any input the title is drawn exactly      *)
(* once; it is on page 1, before every ingredient line of that page, and   *)
(* no later page carries it.                                               *)
(***************************************************************************)
IsTitle(o) == o.op = "drawString" /\ o.text.kind = "title"

C11_TitleOnceOnFirstPage ==
  pdf.state = "saved" =>
    /\ Len(SelectSeq(Flatten(pdf.pages), IsTitle)) = 1
    /\ Len(pdf.pages) >= 1
    /\ Len(SelectSeq(pdf.pages[1], IsTitle)) = 1
    /\ \A i, j \in DOMAIN pdf.pages[1] :
         (IsTitle(pdf.pages[1][i]) /\ IsItem(pdf.pages[1][j])) => i < j
    /\ \A p \in 2..Len(pdf.pages) : SelectSeq(pdf.pages[p], IsTitle) = <<>>

\* A saved document whose lines run onto a third page.
C11_Witness ==
  /\ pdf.state = "saved"
  /\ Len(pdf.pages) >= 3
  /\ ItemsOnPage(pdf.pages, 3) # <<>>
  /\ SelectSeq(pdf.pages[1], IsTitle) # <<>>

(***************************************************************************)
(* The lines a page takes before the cursor, stepping down from its first  *)
(* baseline, reaches the bottom margin.                                    *)
(***************************************************************************)
LinesFrom(top) == (top - BottomY + LineStep - 1) \div LineStep

FirstPageLines == LinesFrom(FirstLineY)
LaterPageLines == LinesFrom(PageTopY)

(***************************************************************************)
(* C12 as stated: the saved document of 60 lines has exactly 2 pages, a    *)
(* page taking 37 lines (37 on the first page, the other 23 on the         *)
(* second).                                                                *)
(***************************************************************************)
C12_SixtyLinesCapacity37 ==
  (pdf.state = "saved" /\ Len(pdf.ingredients_cart) = 60) =>
    /\ Len(pdf.pages) = 2
    /\ Len(ItemsOnPage(pdf.pages, 1)) = 37
    /\ Len(ItemsOnPage(pdf.pages, 2)) = 60 - 37

(***************************************************************************)
(* C12 as amended: the saved document of 60 lines has exactly 2 pages; the *)
(* first page of a document takes 35 lines (its first baseline is 750) and *)
(* every later page 38 (first baseline 800), so the 60 lines stand 35 on   *)
(* page 1 and 25 on page 2.                                                *)
(***************************************************************************)
C12_SixtyLinesTwoPages ==
  pdf.state = "saved" =>
    LET n == Len(pdf.ingredients_cart)
    IN /\ FirstPageLines = 35 /\ LaterPageLines = 38
       /\ Len(ItemsOnPage(pdf.pages, 1)) = IF n < FirstPageLines THEN n ELSE FirstPageLines
       /\ \A p \in 2..Len(pdf.pages) : Len(ItemsOnPage(pdf.pages, p)) <= LaterPageLines
       /\ n = 60 => /\ Len(pdf.pages) = 2
                    /\ Len(ItemsOnPage(pdf.pages, 2)) = 60 - FirstPageLines

\* The saved document of 60 lines.
C12_Witness ==
  /\ pdf.state = "saved"
  /\ Len(pdf.ingredients_cart) = 60
  /\ Len(pdf.pages) = 2

(***************************************************************************)
(* C13: for a user with no row in the cart the aggregation returns the     *)
(* empty sequence, and the download answers 200 with a document of exactly *)
(* one page that carries the title and no ingredient line.                 *)
(***************************************************************************)
EmptyCart(user) == \A r \in DOMAIN recipes : ~BagIn(CartRow(user, r), cart)

C13_EmptyCartTitleOnly ==
  /\ \A user \in Users : EmptyCart(user) => ingredients_cart(user) = {<<>>}
  /\ (resp.op = "download_shopping_cart" /\ EmptyCart(resp.user)) =>
       /\ resp.status = 200
       /\ Len(resp.body) = 1
       /\ Len(SelectSeq(resp.body[1], IsTitle)) = 1
       /\ DrawnItems(resp.body) = <<>>
       /\ DrawnNumbers(resp.body) = <<>>

\* A download by a user with an empty cart while the other user's cart
\* holds a recipe with rows.
C13_Witness ==
  /\ Downloaded
  /\ EmptyCart(resp.user)
  /\ \E other \in Users \ {resp.user} : AggregatedLines(other) # {}
  /\ Len(resp.body) = 1

(***************************************************************************)
(* C14: a step that is an update with a payload giving tags and            *)
(* ingredients and that answers 200 leaves every scalar field the payload  *)
(* omits (name, text, cooking_time, image) at its stored value, and leaves *)
(* the author and the publication date of the recipe as they were.         *)
(***************************************************************************)
ScalarFields == {"name", "text", "cooking_time", "image"}

C14_OmittedScalarsKept ==
  [][(resp'.op = "update" /\ resp'.status = 200) =>
       \A data \in Payloads :
         RecipeViewSet_update(resp'.user, resp'.target, data, resp'.method) =>
           /\ \A f \in ScalarFields \ data.given :
                recipes'[resp'.target][f] = recipes[resp'.target][f]
           /\ recipes'[resp'.target].author = recipes[resp'.target].author
           /\ recipes'[resp'.target].pub_date = recipes[resp'.target].pub_date]_vars

(***************************************************************************)
(* C15: after any sequence of recipe creates, updates and deletes the      *)
(* RecipeIngredient table holds at most one row for a (recipe, ingredient) *)
(* pair; a create or update whose list names an ingredient twice answers   *)
(* with an error and persists no row of the list.                          *)
(***************************************************************************)
NamesTwice(ingredients) ==
  \E j, k \in DOMAIN ingredients : j # k /\ ingredients[j].id = ingredients[k].id

OneRowPerRecipeIngredient ==
  /\ \A x \in DOMAIN ri : ri[x] = 1
  /\ \A x, y \in DOMAIN ri :
       (x.recipe = y.recipe /\ x.ingredient = y.ingredient) => x = y

C15_UniqueRecipeIngredient ==
  /\ []OneRowPerRecipeIngredient
  /\ [][\A data \in {d \in Payloads : "ingredients" \in d.given /\ NamesTwice(d.ingredients)} :
          /\ (resp'.op = "create"
              /\ RecipeViewSet_create(resp'.user, data)) =>
               (resp'.status >= 400 /\ ri' = ri)
          /\ (resp'.op = "update" /\ resp'.target \in DOMAIN recipes
              /\ RecipeViewSet_update(resp'.user, resp'.target, data, resp'.method)) =>
               (resp'.status >= 400 /\ ri' = ri)]_vars

\* A create refused by the bulk INSERT (every create that reaches the
\* serializer's create gives all fields, so only a list naming an
\* ingredient twice makes it raise), with rows of the first recipe stored.
C15_Witness ==
  /\ resp.op = "create"
  /\ resp.status = 500
  /\ ri # EmptyBag

(***************************************************************************)
(* C16: every RecipeIngredient row reached by creates and updates has      *)
(* amount >= 1, and so has every total of an aggregate over the rows; a    *)
(* create or update whose list carries an amount below 1 answers 400 and   *)
(* leaves the recipes and their rows as they were (the amount is not       *)
(* replaced by a valid one).                                               *)
(***************************************************************************)
BelowOne(ingredients) == \E k \in DOMAIN ingredients : ingredients[k].amount < 1

AmountsAtLeastOne ==
  /\ \A x \in DOMAIN ri : x.amount >= 1
  /\ \A line \in LinesOfRows(ri) : line.ingredient_value >= 1
  /\ \A user \in Users : \A line \in AggregatedLines(user) : line.ingredient_value >= 1

C16_AmountAtLeastOne ==
  /\ []AmountsAtLeastOne
  /\ [][\A data \in {d \in Payloads : "ingredients" \in d.given /\ BelowOne(d.ingredients)} :
          /\ (resp'.op = "create"
              /\ RecipeViewSet_create(resp'.user, data)) =>
               (resp'.status = 400 /\ recipes' = recipes /\ ri' = ri)
          /\ (resp'.op = "update" /\ resp'.target \in DOMAIN recipes
              /\ RecipeViewSet_update(resp'.user, resp'.target, data, resp'.method)) =>
               (resp'.status = 400 /\ recipes' = recipes /\ ri' = ri)]_vars

\* An update refused for its ingredients alone (every list of the payloads
\* names stored ingredients, so the error is the amount), on a recipe that
\* holds rows.
C16_Witness ==
  /\ resp.op = "update"
  /\ resp.status = 400
  /\ resp.body = <<{"ingredients"}>>
  /\ RowsOfRecipe(ri, resp.target) # EmptyBag

(***************************************************************************)
(* C17: every stored recipe has at least one tag and at least one          *)
(* RecipeIngredient row (a create or update with an empty tag list or an   *)
(* empty ingredient list persists nothing).                                *)
(***************************************************************************)
C17_TagsAndIngredientsNonEmpty ==
  \A pk \in DOMAIN recipes :
    /\ recipes[pk].tags # {}
    /\ RowsOfRecipe(ri, pk) # EmptyBag

(***************************************************************************)
(* C18: every ShoppingCart, Favorite and RecipeIngredient row references a *)
(* stored recipe, and no aggregate joins a row of a recipe that is not     *)
(* stored; a deletion answered 204 removes every cart, favorite and        *)
(* ingredient row of the deleted recipe and no row of another recipe.      *)
(***************************************************************************)
ReferencesStored ==
  /\ \A x \in DOMAIN cart : x.recipe \in DOMAIN recipes
  /\ \A x \in DOMAIN favorite : x.recipe \in DOMAIN recipes
  /\ \A x \in DOMAIN ri : x.recipe \in DOMAIN recipes
  /\ \A user \in Users : \A x \in DOMAIN JoinedRows(user) : x.recipe \in DOMAIN recipes

OnlyRowsOf(before, after, pk) ==
  /\ \A x \in DOMAIN after : x \in DOMAIN before /\ after[x] = before[x] /\ x.recipe # pk
  /\ \A x \in DOMAIN before : x.recipe # pk => x \in DOMAIN after

C18_DeleteCascades ==
  /\ []ReferencesStored
  /\ [][(resp'.op = "destroy" /\ resp'.status = 204) =>
          /\ resp'.target \in DOMAIN recipes
          /\ DOMAIN recipes' = DOMAIN recipes \ {resp'.target}
          /\ \A pk \in DOMAIN recipes' : recipes'[pk] = recipes[pk]
          /\ OnlyRowsOf(cart, cart', resp'.target)
          /\ OnlyRowsOf(favorite, favorite', resp'.target)
          /\ OnlyRowsOf(ri, ri', resp'.target)
          /\ subs' = subs]_vars

\* A recipe was deleted while another recipe is in a cart and a favorite
\* list: its ingredient rows are gone, those of the other recipe are kept.
C18_Witness ==
  /\ resp.op = "destroy"
  /\ resp.status = 204
  /\ cart # EmptyBag
  /\ favorite # EmptyBag
  /\ ri # EmptyBag
  /\ \A x \in DOMAIN ri : x.recipe # resp.target

(***************************************************************************)
(* C19: a POST to the cart or favorite toggle of a stored recipe whose     *)
(* pair the table does not hold answers 201 and adds that one pair; a      *)
(* DELETE whose pair the table holds answers 204 and removes that one      *)
(* pair; the pairs of other users and recipes, the other membership table, *)
(* the subscriptions, the recipes and their rows stay as they were.        *)
(***************************************************************************)
OtherTablesKept(op) ==
  /\ recipes' = recipes
  /\ ri' = ri
  /\ subs' = subs
  /\ IF op = "favorite" THEN cart' = cart ELSE favorite' = favorite

C19_ToggleChangesOnePair ==
  [][(resp'.op \in {"shopping_cart", "favorite"}
      /\ resp'.target \in DOMAIN recipes) =>
       LET row == CartRow(resp'.user, resp'.target)
           before == IF resp'.op = "favorite" THEN favorite ELSE cart
           after == IF resp'.op = "favorite" THEN favorite' ELSE cart'
       IN /\ (resp'.method = "POST" /\ ~BagIn(row, before)) =>
               /\ resp'.status = 201
               /\ after = before (+) One(row)
               /\ OtherTablesKept(resp'.op)
          /\ (resp'.method = "DELETE" /\ BagIn(row, before)) =>
               /\ resp'.status = 204
               /\ after (+) One(row) = before
               /\ ~BagIn(row, after)
               /\ OtherTablesKept(resp'.op)]_vars

\* A favorite was removed for one user while the same recipe stays in a
\* cart and another favorite row is stored.
C19_Witness ==
  /\ resp.op = "favorite"
  /\ resp.method = "DELETE"
  /\ resp.status = 204
  /\ favorite # EmptyBag
  /\ \E u \in Users : BagIn(CartRow(u, resp.target), cart)

(***************************************************************************)
(* C20: a download (the aggregation, then the PDF writer) leaves the       *)
(* Recipe, RecipeIngredient, ShoppingCart, Favorite and AuthorSubscription *)
(* tables and the pk sequence as they were (the ingredient catalog is not  *)
(* written by any request); the cart of the downloading user keeps its     *)
(* rows.                                                                   *)
(***************************************************************************)
C20_DownloadReadsOnly ==
  [][resp'.op = "download_shopping_cart" =>
       /\ recipes' = recipes
       /\ ri' = ri
       /\ cart' = cart
       /\ favorite' = favorite
       /\ subs' = subs
       /\ nextId' = nextId
       /\ \A r \in DOMAIN recipes :
            CopiesIn(CartRow(resp'.user, r), cart')
              = CopiesIn(CartRow(resp'.user, r), cart)]_vars

\* A download that drew lines, after which the user's cart still holds the
\* recipe they came from.
C20_Witness ==
  /\ Downloaded
  /\ DrawnItems(resp.body) # <<>>
  /\ \E r \in DOMAIN recipes : BagIn(CartRow(resp.user, r), cart)
  /\ AggregatedLines(resp.user) # {}

(***************************************************************************)
(* C21: every call of create_shopping_cart moves from the new document     *)
(* ("called") through the title ("title") and the loop over the lines      *)
(* ("loop", where a pass may break the page) to the saved file ("saved"),  *)
(* which it eventually reaches and never leaves; the file is saved only    *)
(* when every line has been drawn and the page being drawn has been shown, *)
(* no page is emitted before, and nothing is drawn or emitted after.       *)
(***************************************************************************)
RenderPhaseOrder ==
  {<<"called", "title">>, <<"title", "loop">>, <<"loop", "saved">>}

SavedComplete ==
  /\ pdf.state = "saved" =>
       /\ pdf.number = Len(pdf.ingredients_cart) + 1
       /\ Len(DrawnItems(pdf.pages)) = Len(pdf.ingredients_cart)
       /\ pdf.pages = Append(pdf.w.pdf_file.pages, pdf.w.pdf_file.page)
  /\ pdf.state # "saved" => pdf.pages = <<>>

C21_RenderReachesSaved ==
  /\ <>(pdf.state = "saved")
  /\ []SavedComplete
  /\ [][pdf.state' # pdf.state => <<pdf.state, pdf.state'>> \in RenderPhaseOrder]_vars
  /\ [][pdf.state = "saved" => pdf' = pdf]_vars

\* A saved file whose loop broke the page twice.
C21_Witness ==
  /\ pdf.state = "saved"
  /\ Len(pdf.w.pdf_file.pages) >= 2
  /\ pdf.number = Len(pdf.ingredients_cart) + 1

(***************************************************************************)
(* C22: the aggregate of user u is a function of u's own cart rows and of  *)
(* the RecipeIngredient rows of the recipes in them (so two stores that    *)
(* agree on these give the same aggregate, whatever other carts hold), and *)
(* a toggle request of another user leaves the aggregate of u as it was.   *)
(***************************************************************************)
\* The RecipeIngredient rows of the recipes in u's cart, read from u's cart
\* rows and ri alone.
OwnRows(u) ==
  LET own == {r \in RecipeIds : BagIn(CartRow(u, r), cart)}
  IN [x \in {y \in DOMAIN ri : y.recipe \in own} |->
        ri[x] * CopiesIn(CartRow(u, x.recipe), cart)]

AggregateOfOwnRows ==
  \A u \in Users : AggregatedLines(u) = LinesOfRows(OwnRows(u))

C22_AggregateOwnCartOnly ==
  /\ []AggregateOfOwnRows
  /\ [][\A u \in Users :
          (resp'.op \in ToggleOps /\ resp'.user # u) =>
            AggregatedLines(u)' = AggregatedLines(u)]_vars

\* The other user has just put a recipe into the cart; the two users'
\* aggregates differ.
C22_Witness ==
  /\ resp.op = "shopping_cart"
  /\ resp.method = "POST"
  /\ resp.status = 201
  /\ \E u \in Users \ {resp.user} :
       /\ AggregatedLines(u) # {}
       /\ AggregatedLines(u) # AggregatedLines(resp.user)

(***************************************************************************)
(* C23: in the saved document of an input of n >= 1 lines the last page    *)
(* holds at least one ingredient line and every page holds one (the page   *)
(* count is the number of pages with a line: no trailing blank page), and  *)
(* a pass of the loop breaks the page only when a line remains.            *)
(***************************************************************************)
PagesWithLines(pages) == {p \in DOMAIN pages : ItemsOnPage(pages, p) # <<>>}

C23_NoTrailingBlankPage ==
  /\ (pdf.state = "saved" /\ Len(pdf.ingredients_cart) >= 1) =>
       /\ ItemsOnPage(pdf.pages, Len(pdf.pages)) # <<>>
       /\ Len(pdf.pages) = Cardinality(PagesWithLines(pdf.pages))
  /\ (pdf.state = "loop" /\ pdf.number > 1 /\ pdf.w.from_bottom = PageTopY) =>
       pdf.number <= Len(pdf.ingredients_cart)

(***************************************************************************)
(* C24: at every moment of the rendering, every ingredient line drawn so   *)
(* far stands at a baseline y with 50 < y <= 800, consecutive lines of one *)
(* page are 20 apart, page 1 (first baseline 750, below the title) holds   *)
(* at most 35 lines and every later page (first baseline 800) at most 38.  *)
(***************************************************************************)
\* The pages shown so far and the page being drawn.
PagesSoFar ==
  IF pdf.state = "saved" THEN pdf.pages
  ELSE Append(pdf.w.pdf_file.pages, pdf.w.pdf_file.page)

C24_CursorWithinPage ==
  pdf.state \in {"loop", "saved"} =>
    \A p \in DOMAIN PagesSoFar :
      LET items == ItemsOnPage(PagesSoFar, p)
      IN /\ \A k \in DOMAIN items : 50 < items[k].y /\ items[k].y <= 800
         /\ \A k \in DOMAIN items : k > 1 => items[k - 1].y - items[k].y = 20
         /\ items # <<>> => items[1].y = IF p = 1 THEN 750 ELSE 800
         /\ Len(items) <= IF p = 1 THEN 35 ELSE 38

\* A saved document with a full first page and a full second page.
C24_Witness ==
  /\ pdf.state = "saved"
  /\ Len(pdf.pages) >= 3
  /\ Len(ItemsOnPage(pdf.pages, 1)) = 35
  /\ Len(ItemsOnPage(pdf.pages, 2)) = 38
  /\ ItemsOnPage(pdf.pages, 2)[38].y = 60

(***************************************************************************)
(* C25: in every recipe representation returned to an authenticated user,  *)
(* the 201 body of add-to-cart and add-to-favorite included,               *)
(* is_in_shopping_cart is true exactly when the pair (user, recipe) is in  *)
(* the cart store and is_favorited exactly when it is in the favorite      *)
(* store.                                                                  *)
(***************************************************************************)
C25_FlagsMatchStores ==
  (resp.op \in {"shopping_cart", "favorite"} /\ resp.status = 201) =>
    /\ resp.body[1].is_in_shopping_cart
         = (CopiesIn(CartRow(resp.user, resp.target), cart) > 0)
    /\ resp.body[1].is_favorited
         = (CopiesIn(CartRow(resp.user, resp.target), favorite) > 0)

====
